---- MODULE Spec2Model ----
(***************************************************************************)
(* Model of beacon_node/lighthouse_network/src/rpc/protocol.rs: the        *)
(* protocol catalog, the RPC size limits and the inbound upgrade           *)
(* (RPCProtocol::upgrade_inbound) of the Lighthouse req/resp layer.        *)
(***************************************************************************)
EXTENDS Integers, Sequences, FiniteSets, TLC

VARIABLES
    \* ---- shared ForkContext (Arc<ForkContext>) ----
    current_fork,     \* ForkContext::current_fork(), changed by fork activation
    \* ---- RPCProtocol fields (self) and the negotiated ProtocolId ----
    protocol,         \* protocol.versioned_protocol of the matched ProtocolId
    ttfb_timeout,     \* self.ttfb_timeout
    max_chunk_size,   \* the configured chunk ceiling self.max_rpc_size was derived from
    self_max_rpc_size,\* self.max_rpc_size (a plain usize, fixed at construction)
    \* ---- the upgrade future ----
    pc,               \* "Matched" | "Await" | "Done" | "Failed"
    result,           \* the value the future resolved to
    req_deadline,     \* tokio::time::timeout deadline, NoDeadline when not armed
    read_deadline,    \* TimeoutStream read timer deadline, NoDeadline when not armed
    codec,            \* SSZSnappyInboundCodec + Framed read buffer state
    nread,            \* number of chunks the engine has read from the socket
    \* ---- environment: clock and remote peer ----
    now,              \* the clock, in seconds
    sent,             \* chunks the peer has written to the substream, in order
    closed,           \* the peer has closed its write side
    \* ---- observation of the run (history) ----
    hist,             \* counters and snapshots of what the engine did
    \* ---- size-limit engine calls ----
    schema,           \* SSZ schema sizes supplied by the types crate
    call,             \* the pure function applied and its arguments
    ret               \* its result

vars == << current_fork, protocol, ttfb_timeout, max_chunk_size, self_max_rpc_size,
           pc, result, req_deadline, read_deadline, codec, nread,
           now, sent, closed, hist, schema, call, ret >>

negvars == << protocol, ttfb_timeout, max_chunk_size, self_max_rpc_size,
              pc, result, req_deadline, read_deadline, codec, nread,
              now, sent, closed, hist >>

(***************************************************************************)
(* Bounds of the model.                                                    *)
(***************************************************************************)
MaxSends == 2        \* chunks a peer writes on one substream
MaxTime == 32        \* the clock stops here (past every deadline)
TickStep == 5        \* seconds the clock advances at once
MaxTtfb == 16        \* largest configured first-byte timeout
MaxDelta == 2        \* largest per-fork growth of an SSZ schema, in model units
MaxForkActivations == 1   \* forks that activate during one negotiation
MaxLen == 4          \* lengths, minima, maxima and caps tried on is_out_of_bounds

cmp_min(a, b) == IF a <= b THEN a ELSE b

(***************************************************************************)
(* ForkName: the closed, ordered enumeration of forks.                     *)
(***************************************************************************)
ForkNames == << "Base", "Altair", "Bellatrix", "Capella", "Deneb", "Electra" >>

ForkSet == { ForkNames[i] : i \in 1..Len(ForkNames) }

ForkIdx(f) == CHOOSE i \in 1..Len(ForkNames) : ForkNames[i] = f

bellatrix_enabled(f) == ForkIdx(f) >= ForkIdx("Bellatrix")

EthSpecIds == { "Mainnet", "Minimal", "Gnosis" }

(***************************************************************************)
(* Protocol and SupportedProtocol.                                         *)
(***************************************************************************)
Protocols ==
    { "Status", "Goodbye", "BlocksByRange", "BlocksByRoot", "BlobsByRange",
      "BlobsByRoot", "DataColumnsByRoot", "DataColumnsByRange", "Ping", "MetaData",
      "LightClientBootstrap", "LightClientOptimisticUpdate",
      "LightClientFinalityUpdate", "LightClientUpdatesByRange" }

SupportedProtocols ==
    { "StatusV1", "GoodbyeV1", "BlocksByRangeV1", "BlocksByRangeV2",
      "BlocksByRootV1", "BlocksByRootV2", "BlobsByRangeV1", "BlobsByRootV1",
      "DataColumnsByRootV1", "DataColumnsByRangeV1", "PingV1",
      "MetaDataV1", "MetaDataV2", "MetaDataV3", "LightClientBootstrapV1",
      "LightClientOptimisticUpdateV1", "LightClientFinalityUpdateV1",
      "LightClientUpdatesByRangeV1" }

version_string(sp) ==
    CASE sp = "BlocksByRangeV2" -> "2"
      [] sp = "BlocksByRootV2" -> "2"
      [] sp = "MetaDataV2" -> "2"
      [] sp = "MetaDataV3" -> "3"
      [] OTHER -> "1"

protocol_of(sp) ==
    CASE sp = "StatusV1" -> "Status"
      [] sp = "GoodbyeV1" -> "Goodbye"
      [] sp = "BlocksByRangeV1" -> "BlocksByRange"
      [] sp = "BlocksByRangeV2" -> "BlocksByRange"
      [] sp = "BlocksByRootV1" -> "BlocksByRoot"
      [] sp = "BlocksByRootV2" -> "BlocksByRoot"
      [] sp = "BlobsByRangeV1" -> "BlobsByRange"
      [] sp = "BlobsByRootV1" -> "BlobsByRoot"
      [] sp = "DataColumnsByRootV1" -> "DataColumnsByRoot"
      [] sp = "DataColumnsByRangeV1" -> "DataColumnsByRange"
      [] sp = "PingV1" -> "Ping"
      [] sp = "MetaDataV1" -> "MetaData"
      [] sp = "MetaDataV2" -> "MetaData"
      [] sp = "MetaDataV3" -> "MetaData"
      [] sp = "LightClientBootstrapV1" -> "LightClientBootstrap"
      [] sp = "LightClientOptimisticUpdateV1" -> "LightClientOptimisticUpdate"
      [] sp = "LightClientFinalityUpdateV1" -> "LightClientFinalityUpdate"
      [] sp = "LightClientUpdatesByRangeV1" -> "LightClientUpdatesByRange"

(***************************************************************************)
(* SSZ lengths supplied by the types and ssz crates.  The schema record    *)
(* holds the sizes the model leaves open: the variable-length part of a    *)
(* full block body, the growth of a container from one fork to the next    *)
(* and the growth of a light-client header.  Schemas grow monotonically    *)
(* with the fork (spec section 3, Fork Name).                              *)
(***************************************************************************)
Schemas == [ body : 0..MaxDelta, grow : 0..MaxDelta, lc : 0..MaxDelta ]

DefaultSchema == [ body |-> 1, grow |-> 1, lc |-> 1 ]

BYTES_PER_LENGTH_OFFSET == 4

KzgCommitment_ssz_fixed_len == 48

max_blobs_per_block == 6

EmptyBlockLen == 404

\* SignedBeaconBlock::from_block(BeaconBlock<Fork>::full(spec)).as_ssz_bytes().len()
FullBlockLen(f) == EmptyBlockLen + schema.body + (ForkIdx(f) - 1) * schema.grow

\* ExecutionPayload::max_execution_payload_<fork>_size()
max_execution_payload_size(f) == schema.body + (ForkIdx(f) - 1) * schema.grow

\* <LightClient<Kind>Altair as Encode>::ssz_fixed_len()
LightClientAltairFixedLen(kind) ==
    CASE kind = "FinalityUpdate" -> 584
      [] kind = "OptimisticUpdate" -> 280
      [] kind = "Bootstrap" -> 24896
      [] kind = "Update" -> 25368

\* LightClient<Kind>::ssz_max_len_for_fork(fork)
ssz_max_len_for_fork(kind, f) ==
    LightClientAltairFixedLen(kind) + (ForkIdx(f) - 1) * schema.lc

SIGNED_BEACON_BLOCK_BASE_MIN == EmptyBlockLen

SIGNED_BEACON_BLOCK_BASE_MAX == FullBlockLen("Base")

SIGNED_BEACON_BLOCK_ALTAIR_MAX == FullBlockLen("Altair")

SIGNED_BEACON_BLOCK_CAPELLA_MAX_WITHOUT_PAYLOAD == FullBlockLen("Capella")

SIGNED_BEACON_BLOCK_ELECTRA_MAX_WITHOUT_PAYLOAD == FullBlockLen("Electra")

SIGNED_BEACON_BLOCK_BELLATRIX_MAX ==
    SIGNED_BEACON_BLOCK_ALTAIR_MAX
    + max_execution_payload_size("Bellatrix")
    + BYTES_PER_LENGTH_OFFSET

SIGNED_BEACON_BLOCK_CAPELLA_MAX ==
    SIGNED_BEACON_BLOCK_CAPELLA_MAX_WITHOUT_PAYLOAD
    + max_execution_payload_size("Capella")
    + BYTES_PER_LENGTH_OFFSET

SIGNED_BEACON_BLOCK_DENEB_MAX ==
    SIGNED_BEACON_BLOCK_CAPELLA_MAX_WITHOUT_PAYLOAD
    + max_execution_payload_size("Deneb")
    + BYTES_PER_LENGTH_OFFSET
    + (KzgCommitment_ssz_fixed_len * max_blobs_per_block)
    + BYTES_PER_LENGTH_OFFSET

SIGNED_BEACON_BLOCK_ELECTRA_MAX ==
    SIGNED_BEACON_BLOCK_ELECTRA_MAX_WITHOUT_PAYLOAD
    + max_execution_payload_size("Electra")
    + BYTES_PER_LENGTH_OFFSET
    + (KzgCommitment_ssz_fixed_len * max_blobs_per_block)
    + BYTES_PER_LENGTH_OFFSET

BLOB_SIDECAR_SIZE == 131928

BLOB_SIDECAR_SIZE_MINIMAL == 131672

DATA_COLUMNS_SIDECAR_MIN == 356

DATA_COLUMNS_SIDECAR_MAX ==
    DATA_COLUMNS_SIDECAR_MIN + max_blobs_per_block * (2048 + 48 + 48) * (1 + schema.body)

LIGHT_CLIENT_FINALITY_UPDATE_CAPELLA_MAX == ssz_max_len_for_fork("FinalityUpdate", "Capella")

LIGHT_CLIENT_FINALITY_UPDATE_DENEB_MAX == ssz_max_len_for_fork("FinalityUpdate", "Deneb")

LIGHT_CLIENT_FINALITY_UPDATE_ELECTRA_MAX == ssz_max_len_for_fork("FinalityUpdate", "Electra")

LIGHT_CLIENT_OPTIMISTIC_UPDATE_CAPELLA_MAX == ssz_max_len_for_fork("OptimisticUpdate", "Capella")

LIGHT_CLIENT_OPTIMISTIC_UPDATE_DENEB_MAX == ssz_max_len_for_fork("OptimisticUpdate", "Deneb")

LIGHT_CLIENT_OPTIMISTIC_UPDATE_ELECTRA_MAX == ssz_max_len_for_fork("OptimisticUpdate", "Electra")

LIGHT_CLIENT_BOOTSTRAP_CAPELLA_MAX == ssz_max_len_for_fork("Bootstrap", "Capella")

LIGHT_CLIENT_BOOTSTRAP_DENEB_MAX == ssz_max_len_for_fork("Bootstrap", "Deneb")

LIGHT_CLIENT_BOOTSTRAP_ELECTRA_MAX == ssz_max_len_for_fork("Bootstrap", "Electra")

LIGHT_CLIENT_UPDATES_BY_RANGE_CAPELLA_MAX == ssz_max_len_for_fork("Update", "Capella")

LIGHT_CLIENT_UPDATES_BY_RANGE_DENEB_MAX == ssz_max_len_for_fork("Update", "Deneb")

LIGHT_CLIENT_UPDATES_BY_RANGE_ELECTRA_MAX == ssz_max_len_for_fork("Update", "Electra")

\* The number of seconds to wait for a request before the stream is terminated.
REQUEST_TIMEOUT == 15

(***************************************************************************)
(* RpcLimits and the size-limit engine.                                    *)
(***************************************************************************)
\* RpcLimits::new with its two arguments stored in each other's field
RpcLimits_new_swapped(min, max) == [ min |-> max, max |-> min ]

RpcLimits_new(min, max) == [ min |-> min, max |-> max ]

\* max_rpc_size that lifts the ceiling one fork too early
max_rpc_size_from_altair(fork, chunk) ==
    IF ForkIdx(fork) >= ForkIdx("Altair") THEN chunk ELSE chunk \div 10

max_rpc_size(fork, chunk) ==
    IF bellatrix_enabled(fork) THEN chunk ELSE chunk \div 10

\* is_out_of_bounds that ignores the max_rpc_size ceiling
is_out_of_bounds_uncapped(limits, length, cap) ==
    length > limits.max \/ length < limits.min

is_out_of_bounds(limits, length, cap) ==
    length > cmp_min(limits.max, cap) \/ length < limits.min

\* rpc_block_limits_by_fork whose execution-payload forks use a minimum of
\* their own, an empty block with the offset of its empty payload
rpc_block_limits_by_fork_own_min(fork) ==
    CASE fork = "Base" ->
            [ min |-> SIGNED_BEACON_BLOCK_BASE_MIN, max |-> SIGNED_BEACON_BLOCK_BASE_MAX ]
      [] fork = "Altair" ->
            [ min |-> SIGNED_BEACON_BLOCK_BASE_MIN, max |-> SIGNED_BEACON_BLOCK_ALTAIR_MAX ]
      [] fork = "Bellatrix" ->
            [ min |-> SIGNED_BEACON_BLOCK_BASE_MIN + BYTES_PER_LENGTH_OFFSET,
              max |-> SIGNED_BEACON_BLOCK_BELLATRIX_MAX ]
      [] fork = "Capella" ->
            [ min |-> SIGNED_BEACON_BLOCK_BASE_MIN + BYTES_PER_LENGTH_OFFSET,
              max |-> SIGNED_BEACON_BLOCK_CAPELLA_MAX ]
      [] fork = "Deneb" ->
            [ min |-> SIGNED_BEACON_BLOCK_BASE_MIN + BYTES_PER_LENGTH_OFFSET,
              max |-> SIGNED_BEACON_BLOCK_DENEB_MAX ]
      [] fork = "Electra" ->
            [ min |-> SIGNED_BEACON_BLOCK_BASE_MIN + BYTES_PER_LENGTH_OFFSET,
              max |-> SIGNED_BEACON_BLOCK_ELECTRA_MAX ]

\* rpc_block_limits_by_fork whose Deneb arm returns the Bellatrix maximum
rpc_block_limits_by_fork_stale_deneb(fork) ==
    CASE fork = "Base" ->
            [ min |-> SIGNED_BEACON_BLOCK_BASE_MIN, max |-> SIGNED_BEACON_BLOCK_BASE_MAX ]
      [] fork = "Altair" ->
            [ min |-> SIGNED_BEACON_BLOCK_BASE_MIN, max |-> SIGNED_BEACON_BLOCK_ALTAIR_MAX ]
      [] fork = "Bellatrix" ->
            [ min |-> SIGNED_BEACON_BLOCK_BASE_MIN, max |-> SIGNED_BEACON_BLOCK_BELLATRIX_MAX ]
      [] fork = "Capella" ->
            [ min |-> SIGNED_BEACON_BLOCK_BASE_MIN, max |-> SIGNED_BEACON_BLOCK_CAPELLA_MAX ]
      [] fork = "Deneb" ->
            [ min |-> SIGNED_BEACON_BLOCK_BASE_MIN, max |-> SIGNED_BEACON_BLOCK_BELLATRIX_MAX ]
      [] fork = "Electra" ->
            [ min |-> SIGNED_BEACON_BLOCK_BASE_MIN, max |-> SIGNED_BEACON_BLOCK_ELECTRA_MAX ]

rpc_block_limits_by_fork(fork) ==
    CASE fork = "Base" ->
            RpcLimits_new(SIGNED_BEACON_BLOCK_BASE_MIN, SIGNED_BEACON_BLOCK_BASE_MAX)
      [] fork = "Altair" ->
            RpcLimits_new(SIGNED_BEACON_BLOCK_BASE_MIN, SIGNED_BEACON_BLOCK_ALTAIR_MAX)
      [] fork = "Bellatrix" ->
            RpcLimits_new(SIGNED_BEACON_BLOCK_BASE_MIN, SIGNED_BEACON_BLOCK_BELLATRIX_MAX)
      [] fork = "Capella" ->
            RpcLimits_new(SIGNED_BEACON_BLOCK_BASE_MIN, SIGNED_BEACON_BLOCK_CAPELLA_MAX)
      [] fork = "Deneb" ->
            RpcLimits_new(SIGNED_BEACON_BLOCK_BASE_MIN, SIGNED_BEACON_BLOCK_DENEB_MAX)
      [] fork = "Electra" ->
            RpcLimits_new(SIGNED_BEACON_BLOCK_BASE_MIN, SIGNED_BEACON_BLOCK_ELECTRA_MAX)

rpc_light_client_updates_by_range_limits_by_fork(fork) ==
    LET altair_fixed_len == LightClientAltairFixedLen("FinalityUpdate")
    IN  CASE fork = "Base" -> RpcLimits_new(0, 0)
          [] fork \in { "Altair", "Bellatrix" } ->
                RpcLimits_new(altair_fixed_len, altair_fixed_len)
          [] fork = "Capella" ->
                RpcLimits_new(altair_fixed_len, LIGHT_CLIENT_UPDATES_BY_RANGE_CAPELLA_MAX)
          [] fork = "Deneb" ->
                RpcLimits_new(altair_fixed_len, LIGHT_CLIENT_UPDATES_BY_RANGE_DENEB_MAX)
          [] fork = "Electra" ->
                RpcLimits_new(altair_fixed_len, LIGHT_CLIENT_UPDATES_BY_RANGE_ELECTRA_MAX)

rpc_light_client_finality_update_limits_by_fork(fork) ==
    LET altair_fixed_len == LightClientAltairFixedLen("FinalityUpdate")
    IN  CASE fork = "Base" -> RpcLimits_new(0, 0)
          [] fork \in { "Altair", "Bellatrix" } ->
                RpcLimits_new(altair_fixed_len, altair_fixed_len)
          [] fork = "Capella" ->
                RpcLimits_new(altair_fixed_len, LIGHT_CLIENT_FINALITY_UPDATE_CAPELLA_MAX)
          [] fork = "Deneb" ->
                RpcLimits_new(altair_fixed_len, LIGHT_CLIENT_FINALITY_UPDATE_DENEB_MAX)
          [] fork = "Electra" ->
                RpcLimits_new(altair_fixed_len, LIGHT_CLIENT_FINALITY_UPDATE_ELECTRA_MAX)

rpc_light_client_optimistic_update_limits_by_fork(fork) ==
    LET altair_fixed_len == LightClientAltairFixedLen("OptimisticUpdate")
    IN  CASE fork = "Base" -> RpcLimits_new(0, 0)
          [] fork \in { "Altair", "Bellatrix" } ->
                RpcLimits_new(altair_fixed_len, altair_fixed_len)
          [] fork = "Capella" ->
                RpcLimits_new(altair_fixed_len, LIGHT_CLIENT_OPTIMISTIC_UPDATE_CAPELLA_MAX)
          [] fork = "Deneb" ->
                RpcLimits_new(altair_fixed_len, LIGHT_CLIENT_OPTIMISTIC_UPDATE_DENEB_MAX)
          [] fork = "Electra" ->
                RpcLimits_new(altair_fixed_len, LIGHT_CLIENT_OPTIMISTIC_UPDATE_ELECTRA_MAX)

rpc_light_client_bootstrap_limits_by_fork(fork) ==
    LET altair_fixed_len == LightClientAltairFixedLen("Bootstrap")
    IN  CASE fork = "Base" -> RpcLimits_new(0, 0)
          [] fork \in { "Altair", "Bellatrix" } ->
                RpcLimits_new(altair_fixed_len, altair_fixed_len)
          [] fork = "Capella" ->
                RpcLimits_new(altair_fixed_len, LIGHT_CLIENT_BOOTSTRAP_CAPELLA_MAX)
          [] fork = "Deneb" ->
                RpcLimits_new(altair_fixed_len, LIGHT_CLIENT_BOOTSTRAP_DENEB_MAX)
          [] fork = "Electra" ->
                RpcLimits_new(altair_fixed_len, LIGHT_CLIENT_BOOTSTRAP_ELECTRA_MAX)

rpc_blob_limits(E) ==
    CASE E = "Minimal" -> RpcLimits_new(BLOB_SIDECAR_SIZE_MINIMAL, BLOB_SIDECAR_SIZE_MINIMAL)
      [] E \in { "Mainnet", "Gnosis" } -> RpcLimits_new(BLOB_SIDECAR_SIZE, BLOB_SIDECAR_SIZE)

rpc_data_column_limits == RpcLimits_new(DATA_COLUMNS_SIDECAR_MIN, DATA_COLUMNS_SIDECAR_MAX)

\* <T as Encode>::ssz_fixed_len() of the fixed-length request and response bodies
ssz_fixed_len(T) ==
    CASE T = "StatusMessage" -> 84
      [] T = "GoodbyeReason" -> 8
      [] T = "OldBlocksByRangeRequestV2" -> 24
      [] T = "BlobsByRangeRequest" -> 16
      [] T = "Ping" -> 8
      [] T = "LightClientBootstrapRequest" -> 32
      [] T = "MetaDataV1" -> 16
      [] T = "MetaDataV3" -> 25

\* ChainSpec: the request-size fields read by rpc_request_limits
ChainSpec(E) ==
    [ max_blocks_by_root_request |-> 32768,
      max_blobs_by_root_request |-> 30720,
      max_data_columns_by_root_request |-> 655360,
      number_of_columns |-> 128 ]

DataColumnsByRangeRequest_ssz_min_len == 20

DataColumnsByRangeRequest_ssz_max_len(spec) ==
    DataColumnsByRangeRequest_ssz_min_len + 8 * spec.number_of_columns

LightClientUpdatesByRangeRequest_ssz_min_len == 16

LightClientUpdatesByRangeRequest_ssz_max_len == 16

rpc_request_limits(sp, spec) ==
    LET p == protocol_of(sp)
    IN  CASE p = "Status" ->
                RpcLimits_new(ssz_fixed_len("StatusMessage"), ssz_fixed_len("StatusMessage"))
          [] p = "Goodbye" ->
                RpcLimits_new(ssz_fixed_len("GoodbyeReason"), ssz_fixed_len("GoodbyeReason"))
          [] p = "BlocksByRange" ->
                RpcLimits_new(ssz_fixed_len("OldBlocksByRangeRequestV2"),
                              ssz_fixed_len("OldBlocksByRangeRequestV2"))
          [] p = "BlocksByRoot" -> RpcLimits_new(0, spec.max_blocks_by_root_request)
          [] p = "BlobsByRange" ->
                RpcLimits_new(ssz_fixed_len("BlobsByRangeRequest"),
                              ssz_fixed_len("BlobsByRangeRequest"))
          [] p = "BlobsByRoot" -> RpcLimits_new(0, spec.max_blobs_by_root_request)
          [] p = "DataColumnsByRoot" ->
                RpcLimits_new(0, spec.max_data_columns_by_root_request)
          [] p = "DataColumnsByRange" ->
                RpcLimits_new(DataColumnsByRangeRequest_ssz_min_len,
                              DataColumnsByRangeRequest_ssz_max_len(spec))
          [] p = "Ping" -> RpcLimits_new(ssz_fixed_len("Ping"), ssz_fixed_len("Ping"))
          [] p = "LightClientBootstrap" ->
                RpcLimits_new(ssz_fixed_len("LightClientBootstrapRequest"),
                              ssz_fixed_len("LightClientBootstrapRequest"))
          [] p = "LightClientOptimisticUpdate" -> RpcLimits_new(0, 0)
          [] p = "LightClientFinalityUpdate" -> RpcLimits_new(0, 0)
          [] p = "LightClientUpdatesByRange" ->
                RpcLimits_new(LightClientUpdatesByRangeRequest_ssz_min_len,
                              LightClientUpdatesByRangeRequest_ssz_max_len)
          [] p = "MetaData" -> RpcLimits_new(0, 0)

rpc_response_limits(sp, E, fork) ==
    LET p == protocol_of(sp)
    IN  CASE p = "Status" ->
                RpcLimits_new(ssz_fixed_len("StatusMessage"), ssz_fixed_len("StatusMessage"))
          [] p = "Goodbye" -> RpcLimits_new(0, 0)
          [] p = "BlocksByRange" -> rpc_block_limits_by_fork(fork)
          [] p = "BlocksByRoot" -> rpc_block_limits_by_fork(fork)
          [] p = "BlobsByRange" -> rpc_blob_limits(E)
          [] p = "BlobsByRoot" -> rpc_blob_limits(E)
          [] p = "DataColumnsByRoot" -> rpc_data_column_limits
          [] p = "DataColumnsByRange" -> rpc_data_column_limits
          [] p = "Ping" -> RpcLimits_new(ssz_fixed_len("Ping"), ssz_fixed_len("Ping"))
          [] p = "MetaData" ->
                RpcLimits_new(ssz_fixed_len("MetaDataV1"), ssz_fixed_len("MetaDataV3"))
          [] p = "LightClientBootstrap" -> rpc_light_client_bootstrap_limits_by_fork(fork)
          [] p = "LightClientOptimisticUpdate" ->
                rpc_light_client_optimistic_update_limits_by_fork(fork)
          [] p = "LightClientFinalityUpdate" ->
                rpc_light_client_finality_update_limits_by_fork(fork)
          [] p = "LightClientUpdatesByRange" ->
                rpc_light_client_updates_by_range_limits_by_fork(fork)

(***************************************************************************)
(* RequestType and RPCError values.                                        *)
(***************************************************************************)
\* ForkContext as the protocol catalog reads it: the current fork, whether the
\* Deneb fork is scheduled (fork_exists) and whether PeerDAS is scheduled
ForkContext(fork, deneb, peer_das) ==
    [ current_fork |-> fork, deneb_exists |-> deneb, peer_das_scheduled |-> peer_das ]

NoForkContext == ForkContext("none", FALSE, FALSE)

NoRequest == [ tag |-> "none", version |-> "0", n |-> 0 ]

NoError == [ kind |-> "none", msg |-> "" ]

RequestType(tag, version, n) == [ tag |-> tag, version |-> version, n |-> n ]

MetadataRequest_new_v1 == RequestType("MetaData", "1", 0)

MetadataRequest_new_v2 == RequestType("MetaData", "2", 0)

MetadataRequest_new_v3 == RequestType("MetaData", "3", 0)

RPCError(kind, msg) == [ kind |-> kind, msg |-> msg ]

\* an elapsed request timeout reported as the read timer's failure
RPCError_from_Elapsed_as_io == RPCError("IoError", "timed out")

\* impl From<tokio::time::error::Elapsed> for RPCError
RPCError_from_Elapsed == RPCError("StreamTimeout", "")

\* impl From<io::Error> for RPCError
RPCError_from_io(err) == RPCError("IoError", err)

(***************************************************************************)
(* The peer's side of the substream.  A chunk is a group of bytes the peer *)
(* writes at once: an incomplete piece of a frame ("frag"), the            *)
(* length prefix announcing n bytes ("len"), the rest of the frame holding *)
(* a body that decodes (ok) to a request of payload n or does not          *)
(* ("body"), or a transport failure seen by the reader ("reset").          *)
(***************************************************************************)
Chunk(k, n, ok) == [ k |-> k, n |-> n, ok |-> ok ]

MaxChunkSizes == { 500, 10485760 }

TtfbTimeouts == { 5, REQUEST_TIMEOUT, MaxTtfb }

Lengths(sp) ==
    LET lim == rpc_request_limits(sp, ChainSpec("Mainnet"))
    IN  { lim.min, lim.max, lim.max + 1, 500 }

HasKind(chunks, k) == \E i \in 1..Len(chunks) : chunks[i].k = k

\* what a peer may write next, given what it has written
NextChunks(sp, chunks) ==
    IF HasKind(chunks, "reset") THEN {}
    ELSE { Chunk("frag", 0, TRUE), Chunk("reset", 0, FALSE) }
         \cup (IF HasKind(chunks, "len") THEN {}
               ELSE { Chunk("len", l, TRUE) : l \in Lengths(sp) })
         \cup (IF HasKind(chunks, "len") /\ ~HasKind(chunks, "body")
               THEN { Chunk("body", 0, FALSE), Chunk("body", 1, TRUE) }
               ELSE {})

(***************************************************************************)
(* Timers.                                                                 *)
(***************************************************************************)
Disarmed == [ armed |-> FALSE, at |-> 0 ]

Armed(t) == [ armed |-> TRUE, at |-> t ]

\* a negotiation that arms no request timeout
RequestDeadline_never(t) == Disarmed

\* tokio::time::timeout(Duration::from_secs(REQUEST_TIMEOUT), ..)
RequestDeadline(t) == Armed(t + REQUEST_TIMEOUT)

\* timed_socket.set_read_timeout(Some(self.ttfb_timeout)): armed when a read is pending
ReadDeadline(t, ttfb) == Armed(t + ttfb)

\* the next instant at which an armed timer fires
EarliestDeadline ==
    cmp_min(IF req_deadline.armed THEN req_deadline.at ELSE MaxTime,
            IF read_deadline.armed THEN read_deadline.at ELSE MaxTime)

(***************************************************************************)
(* SSZSnappyInboundCodec under Framed: the external codec, configured by   *)
(* upgrade_inbound with the protocol, self.max_rpc_size and the fork       *)
(* context.                                                                *)
(***************************************************************************)
NoCodec == [ protocol |-> "none", max_rpc_size |-> 0, has_len |-> FALSE, len |-> 0,
             buffered |-> FALSE ]

SSZSnappyInboundCodec_new(sp, size) ==
    [ protocol |-> sp, max_rpc_size |-> size, has_len |-> FALSE, len |-> 0,
      buffered |-> FALSE ]

NoCheck == [ made |-> FALSE, length |-> 0, rejected |-> FALSE ]

Pending == [ ready |-> FALSE, some |-> FALSE, ok |-> FALSE,
             request |-> NoRequest, error |-> NoError ]

StreamEnd == [ ready |-> TRUE, some |-> FALSE, ok |-> FALSE,
               request |-> NoRequest, error |-> NoError ]

ItemOk(r) == [ ready |-> TRUE, some |-> TRUE, ok |-> TRUE, request |-> r, error |-> NoError ]

ItemErr(e) == [ ready |-> TRUE, some |-> TRUE, ok |-> FALSE, request |-> NoRequest, error |-> e ]

\* handle_rpc_request: the request a body of payload n decodes to
DecodedRequest(sp, n) ==
    RequestType(protocol_of(sp), version_string(sp),
                IF protocol_of(sp) \in { "LightClientOptimisticUpdate",
                                         "LightClientFinalityUpdate", "MetaData" }
                THEN 0 ELSE n)

\* the bounds the codec applies to a length prefix
CodecLimits(c) == rpc_request_limits(c.protocol, ChainSpec("Mainnet"))

\* a codec that recomputes its ceiling from the fork current at each check
CodecCeiling_live(c) == max_rpc_size(current_fork, max_chunk_size)

CodecCeiling(c) == c.max_rpc_size

\* Decoder::decode on the bytes of one more chunk
Decode(c, chunk) ==
    CASE chunk.k = "frag" ->
            [ codec |-> [ c EXCEPT !.buffered = TRUE ], poll |-> Pending, check |-> NoCheck ]
      [] chunk.k = "len" ->
            LET rejected == is_out_of_bounds(CodecLimits(c), chunk.n, CodecCeiling(c))
                chk == [ made |-> TRUE, length |-> chunk.n, rejected |-> rejected ]
            IN  IF rejected
                THEN [ codec |-> c, poll |-> ItemErr(RPCError("InvalidData", "out of bounds")),
                       check |-> chk ]
                ELSE [ codec |-> [ c EXCEPT !.has_len = TRUE, !.len = chunk.n,
                                            !.buffered = FALSE ],
                       poll |-> Pending, check |-> chk ]
      [] chunk.k = "body" ->
            [ codec |-> [ c EXCEPT !.has_len = FALSE, !.buffered = FALSE ],
              poll |-> IF chunk.ok
                       THEN ItemOk(DecodedRequest(c.protocol, chunk.n))
                       ELSE ItemErr(RPCError("SSZDecodeError", "")),
              check |-> NoCheck ]
      [] chunk.k = "reset" ->
            [ codec |-> c, poll |-> ItemErr(RPCError_from_io("connection reset")),
              check |-> NoCheck ]

\* Decoder::decode_eof: the stream ended with the buffer as the codec left it
DecodeEof(c) ==
    IF c.buffered THEN ItemErr(RPCError_from_io("bytes remaining on stream"))
    ELSE StreamEnd

\* Framed::poll_next: read what the socket holds, chunk by chunk, until the
\* codec yields an item, the socket has nothing more (Pending) or it ended.
RECURSIVE PollNext(_, _, _, _, _)
PollNext(c, chunks, i, eof, chk) ==
    IF i > Len(chunks)
    THEN [ codec |-> c, nread |-> i - 1, check |-> chk,
           poll |-> IF eof THEN DecodeEof(c) ELSE Pending ]
    ELSE CHOOSE r \in
            { IF d.poll.ready
              THEN [ codec |-> d.codec, nread |-> i, check |-> d.check, poll |-> d.poll ]
              ELSE PollNext(d.codec, chunks, i + 1, eof, d.check)
              : d \in { [ dd EXCEPT !.check = IF dd.check.made THEN dd.check ELSE chk ]
                        : dd \in { Decode(c, chunks[i]) } } } : TRUE

(***************************************************************************)
(* RPCProtocol::upgrade_inbound.                                           *)
(***************************************************************************)
FastPathProtocols ==
    { "MetaDataV1", "MetaDataV2", "MetaDataV3",
      "LightClientOptimisticUpdateV1", "LightClientFinalityUpdateV1" }

NoResult == [ status |-> "Pending", request |-> NoRequest, error |-> NoError,
              stream |-> FALSE ]

Ok(request) == [ status |-> "Ok", request |-> request, error |-> NoError, stream |-> TRUE ]

Err(e) == [ status |-> "Err", request |-> NoRequest, error |-> e, stream |-> FALSE ]

\* a fast path whose two light-client arms return each other's request
FastPathRequest_light_client_swapped(sp) ==
    CASE sp = "MetaDataV1" -> MetadataRequest_new_v1
      [] sp = "MetaDataV2" -> MetadataRequest_new_v2
      [] sp = "MetaDataV3" -> MetadataRequest_new_v3
      [] sp = "LightClientOptimisticUpdateV1" ->
            RequestType("LightClientFinalityUpdate", "1", 0)
      [] sp = "LightClientFinalityUpdateV1" ->
            RequestType("LightClientOptimisticUpdate", "1", 0)

\* a fast path that builds every MetaData request as version 1
FastPathRequest_always_v1(sp) ==
    CASE sp \in { "MetaDataV1", "MetaDataV2", "MetaDataV3" } -> MetadataRequest_new_v1
      [] sp = "LightClientOptimisticUpdateV1" ->
            RequestType("LightClientOptimisticUpdate", "1", 0)
      [] sp = "LightClientFinalityUpdateV1" ->
            RequestType("LightClientFinalityUpdate", "1", 0)

\* the empty-body arms of the match on versioned_protocol
FastPathRequest(sp) ==
    CASE sp = "MetaDataV1" -> MetadataRequest_new_v1
      [] sp = "MetaDataV2" -> MetadataRequest_new_v2
      [] sp = "MetaDataV3" -> MetadataRequest_new_v3
      [] sp = "LightClientOptimisticUpdateV1" ->
            RequestType("LightClientOptimisticUpdate", "1", 0)
      [] sp = "LightClientFinalityUpdateV1" ->
            RequestType("LightClientFinalityUpdate", "1", 0)

\* a match without the MetaDataV3 arm: version 3 falls through to the decode
IsFastPath_without_v3(sp) == sp \in FastPathProtocols \ { "MetaDataV3" }

IsFastPath(sp) == sp \in FastPathProtocols

\* a match that reports the end of the stream as a timeout
MatchTimeout_end_as_timeout(elapsed, poll) ==
    IF elapsed THEN Err(RPCError_from_Elapsed)
    ELSE IF poll.some /\ poll.ok THEN Ok(poll.request)
    ELSE IF poll.some THEN Err(poll.error)
    ELSE Err(RPCError_from_Elapsed)

\* a match that replaces the stream's error by IncompleteStream
MatchTimeout_error_replaced(elapsed, poll) ==
    IF elapsed THEN Err(RPCError_from_Elapsed)
    ELSE IF poll.some /\ poll.ok THEN Ok(poll.request)
    ELSE Err(RPCError("IncompleteStream", ""))

\* the match on the outcome of timeout(REQUEST_TIMEOUT, socket.into_future())
MatchTimeout(elapsed, poll) ==
    IF elapsed THEN Err(RPCError_from_Elapsed)
    ELSE IF poll.some /\ poll.ok THEN Ok(poll.request)
    ELSE IF poll.some THEN Err(poll.error)
    ELSE Err(RPCError("IncompleteStream", ""))

\* an engine that goes back to waiting after a failure
Resolved_retry(r) == IF r.status = "Ok" THEN "Done" ELSE "Await"

\* the state of the future once it has resolved to r
Resolved(r) == IF r.status = "Ok" THEN "Done" ELSE "Failed"

(***************************************************************************)
(* History of a negotiation: what woke the engine, what the stream         *)
(* yielded, how often the future resolved.                                 *)
(***************************************************************************)
NoBounds == [ limits |-> RpcLimits_new(0, 0), cap |-> 0 ]

InitHist ==
    [ outcomes |-> 0,          \* times the future resolved
      items |-> 0,             \* items taken from the framed stream
      item |-> Pending,        \* the item the stream yielded
      cause |-> "none",        \* the event that resolved the future
      waited |-> FALSE,        \* the future returned Poll::Pending at least once
      check |-> NoCheck,       \* the codec's bounds check of the length prefix
      armed |-> NoBounds,      \* the bounds in force when the decode was armed
      forked |-> FALSE,        \* the current fork changed during the await
      activations |-> 0,       \* fork activations so far
      started_at |-> 0,
      resolved_at |-> 0 ]

NoCall == [ fn |-> "none", sp |-> "none", E |-> "none", fork |-> "none",
            min |-> 0, max |-> 0, length |-> 0, cap |-> 0,
            req |-> NoRequest, ctx |-> NoForkContext, flag |-> FALSE ]

NoRet == [ limits |-> RpcLimits_new(0, 0), bool |-> FALSE, n |-> 0,
           list |-> << >>, marker |-> "none", unreachable |-> FALSE ]

Terminal == { "Done", "Failed" }

(***************************************************************************)
(* Initial state: the transport has matched a protocol identifier and      *)
(* built the RPCProtocol for the substream.                                *)
(***************************************************************************)
Init ==
    /\ current_fork \in ForkSet
    /\ protocol \in SupportedProtocols
    /\ ttfb_timeout \in TtfbTimeouts
    /\ max_chunk_size \in MaxChunkSizes
    /\ self_max_rpc_size = max_rpc_size(current_fork, max_chunk_size)
    /\ pc = "Matched"
    /\ result = NoResult
    /\ req_deadline = Disarmed
    /\ read_deadline = Disarmed
    /\ codec = NoCodec
    /\ nread = 0
    /\ now = 0
    /\ sent = << >>
    /\ closed = FALSE
    /\ hist = InitHist
    /\ schema = DefaultSchema
    /\ call = NoCall
    /\ ret = NoRet

\* the future resolves to r
Resolve(r, h, cause, poll) ==
    /\ result' = r
    /\ pc' = Resolved(r)
    /\ req_deadline' = Disarmed
    /\ read_deadline' = Disarmed
    /\ hist' = [ h EXCEPT !.outcomes = @ + 1,
                          !.items = @ + (IF poll.some THEN 1 ELSE 0),
                          !.item = poll,
                          !.cause = cause,
                          !.resolved_at = now ]

\* the engine polls socket.into_future(): it reads what the socket holds and
\* either resolves or stays pending with the read timer armed afresh
Drive(c, chunks, eof, h, rd, cause) ==
    \E p \in { PollNext(c, chunks, nread + 1, eof, h.check) } :
        /\ codec' = p.codec
        /\ nread' = p.nread
        /\ IF p.poll.ready
           THEN Resolve(MatchTimeout(FALSE, p.poll), [ h EXCEPT !.check = p.check ],
                        cause, p.poll)
           ELSE /\ pc' = "Await"
                /\ result' = NoResult
                /\ req_deadline' = rd
                /\ read_deadline' = ReadDeadline(now, ttfb_timeout)
                /\ hist' = [ h EXCEPT !.check = p.check, !.waited = TRUE ]

\* first poll of the future returned by upgrade_inbound
upgrade_inbound ==
    /\ pc = "Matched"
    /\ LET c == SSZSnappyInboundCodec_new(protocol, self_max_rpc_size)
           h == [ hist EXCEPT !.started_at = now,
                              !.armed = [ limits |-> CodecLimits(c), cap |-> CodecCeiling(c) ] ]
       IN  IF IsFastPath(protocol)
           THEN /\ codec' = c
                /\ nread' = nread
                /\ Resolve(Ok(FastPathRequest(protocol)), h, "fast", Pending)
           ELSE Drive(c, sent, closed, h, RequestDeadline(now), "poll")
    /\ UNCHANGED << current_fork, protocol, ttfb_timeout, max_chunk_size,
                    self_max_rpc_size, now, sent, closed, schema, call, ret >>

\* the peer writes a chunk; a waiting engine is woken and reads it
PeerSend ==
    /\ Len(sent) < MaxSends
    /\ ~closed
    /\ \E chunk \in NextChunks(protocol, sent) :
          /\ sent' = Append(sent, chunk)
          /\ IF pc = "Await"
             THEN Drive(codec, sent', closed, hist, req_deadline, "read")
             ELSE UNCHANGED << pc, result, req_deadline, read_deadline, codec, nread, hist >>
    /\ UNCHANGED << current_fork, protocol, ttfb_timeout, max_chunk_size,
                    self_max_rpc_size, now, closed, schema, call, ret >>

\* the peer closes its write side; a waiting engine is woken and reads the end
PeerClose ==
    /\ ~closed
    /\ closed' = TRUE
    /\ IF pc = "Await"
       THEN Drive(codec, sent, TRUE, hist, req_deadline, "eof")
       ELSE UNCHANGED << pc, result, req_deadline, read_deadline, codec, nread, hist >>
    /\ UNCHANGED << current_fork, protocol, ttfb_timeout, max_chunk_size,
                    self_max_rpc_size, now, sent, schema, call, ret >>

\* the TimeoutStream read timer fires: poll_read fails with ErrorKind::TimedOut
ReadTimeout ==
    /\ pc = "Await"
    /\ read_deadline.armed
    /\ now >= read_deadline.at
    /\ LET poll == ItemErr(RPCError_from_io("timed out"))
       IN  Resolve(MatchTimeout(FALSE, poll), hist, "read_timeout", poll)
    /\ UNCHANGED << current_fork, protocol, ttfb_timeout, max_chunk_size,
                    self_max_rpc_size, codec, nread, now, sent, closed, schema, call, ret >>

\* tokio::time::timeout elapses
RequestTimeout ==
    /\ pc = "Await"
    /\ req_deadline.armed
    /\ now >= req_deadline.at
    /\ Resolve(MatchTimeout(TRUE, Pending), hist, "request_timeout", Pending)
    /\ UNCHANGED << current_fork, protocol, ttfb_timeout, max_chunk_size,
                    self_max_rpc_size, codec, nread, now, sent, closed, schema, call, ret >>

\* time passes during the wait, by TickStep seconds or up to the earliest armed
\* deadline: an armed timer fires before the clock passes its deadline
Tick ==
    /\ pc = "Await"
    /\ now < MaxTime
    /\ req_deadline.armed => now < req_deadline.at
    /\ read_deadline.armed => now < read_deadline.at
    /\ now' = cmp_min(now + TickStep, EarliestDeadline)
    /\ UNCHANGED << current_fork, protocol, ttfb_timeout, max_chunk_size,
                    self_max_rpc_size, pc, result, req_deadline, read_deadline, codec,
                    nread, sent, closed, hist, schema, call, ret >>

\* ForkContext::update_current_fork: the next fork activates
ForkActivation ==
    /\ hist.activations < MaxForkActivations
    /\ ForkIdx(current_fork) < Len(ForkNames)
    /\ current_fork' = ForkNames[ForkIdx(current_fork) + 1]
    /\ hist' = [ hist EXCEPT !.forked = @ \/ (pc = "Await"), !.activations = @ + 1 ]
    /\ UNCHANGED << protocol, ttfb_timeout, max_chunk_size, self_max_rpc_size,
                    pc, result, req_deadline, read_deadline, codec, nread,
                    now, sent, closed, schema, call, ret >>

Next ==
    \/ upgrade_inbound
    \/ PeerSend
    \/ PeerClose
    \/ ReadTimeout
    \/ RequestTimeout
    \/ Tick
    \/ ForkActivation

Spec == Init /\ [][Next]_vars

\* the negotiations checked for termination: every protocol and ttfb timeout,
\* on a node at the Altair fork with the small chunk ceiling
FairInit ==
    /\ Init
    /\ current_fork = "Altair"
    /\ max_chunk_size = 500

\* the executor polls a ready future and the timer driver fires due timers
FairSpec ==
    /\ FairInit
    /\ [][Next]_vars
    /\ WF_vars(upgrade_inbound)
    /\ WF_vars(ReadTimeout)
    /\ WF_vars(RequestTimeout)
    /\ WF_vars(Tick)

(***************************************************************************)
(* The protocol catalog: the identifiers this node advertises.  Every      *)
(* ProtocolId is built with Encoding::SSZSnappy, the only encoding, so an  *)
(* identifier is named by its SupportedProtocol.                           *)
(***************************************************************************)
\* currently_supported that pushes the older BlocksByRoot version first
currently_supported_v1_first(ctx) ==
    << "StatusV1", "GoodbyeV1", "BlocksByRangeV2", "BlocksByRangeV1",
       "BlocksByRootV1", "BlocksByRootV2", "PingV1" >>
    \o ( IF ctx.peer_das_scheduled
         THEN << "MetaDataV3", "MetaDataV2", "MetaDataV1" >>
         ELSE << "MetaDataV2", "MetaDataV1" >> )
    \o ( IF ctx.deneb_exists THEN << "BlobsByRootV1", "BlobsByRangeV1" >> ELSE << >> )
    \o ( IF ctx.peer_das_scheduled
         THEN << "DataColumnsByRootV1", "DataColumnsByRangeV1" >> ELSE << >> )

\* currently_supported that advertises MetaData v3 whether or not PeerDAS is scheduled
currently_supported_always_v3(ctx) ==
    << "StatusV1", "GoodbyeV1", "BlocksByRangeV2", "BlocksByRangeV1",
       "BlocksByRootV2", "BlocksByRootV1", "PingV1" >>
    \o << "MetaDataV3", "MetaDataV2", "MetaDataV1" >>
    \o ( IF ctx.deneb_exists THEN << "BlobsByRootV1", "BlobsByRangeV1" >> ELSE << >> )
    \o ( IF ctx.peer_das_scheduled
         THEN << "DataColumnsByRootV1", "DataColumnsByRangeV1" >> ELSE << >> )

\* currently_supported that gates the blob protocols on PeerDAS instead of Deneb
currently_supported_blobs_on_peer_das(ctx) ==
    << "StatusV1", "GoodbyeV1", "BlocksByRangeV2", "BlocksByRangeV1",
       "BlocksByRootV2", "BlocksByRootV1", "PingV1" >>
    \o ( IF ctx.peer_das_scheduled
         THEN << "MetaDataV3", "MetaDataV2", "MetaDataV1" >>
         ELSE << "MetaDataV2", "MetaDataV1" >> )
    \o ( IF ctx.peer_das_scheduled THEN << "BlobsByRootV1", "BlobsByRangeV1" >> ELSE << >> )
    \o ( IF ctx.peer_das_scheduled
         THEN << "DataColumnsByRootV1", "DataColumnsByRangeV1" >> ELSE << >> )

currently_supported(ctx) ==
    << "StatusV1", "GoodbyeV1", "BlocksByRangeV2", "BlocksByRangeV1",
       "BlocksByRootV2", "BlocksByRootV1", "PingV1" >>
    \o ( IF ctx.peer_das_scheduled
         THEN << "MetaDataV3", "MetaDataV2", "MetaDataV1" >>
         ELSE << "MetaDataV2", "MetaDataV1" >> )
    \o ( IF ctx.deneb_exists THEN << "BlobsByRootV1", "BlobsByRangeV1" >> ELSE << >> )
    \o ( IF ctx.peer_das_scheduled
         THEN << "DataColumnsByRootV1", "DataColumnsByRangeV1" >> ELSE << >> )

\* protocol_info that appends the light-client protocols whatever the flag
protocol_info_flag_ignored(ctx, enable_light_client_server) ==
    currently_supported(ctx)
    \o << "LightClientBootstrapV1", "LightClientOptimisticUpdateV1",
          "LightClientFinalityUpdateV1" >>

protocol_info(ctx, enable_light_client_server) ==
    currently_supported(ctx)
    \o ( IF enable_light_client_server
         THEN << "LightClientBootstrapV1", "LightClientOptimisticUpdateV1",
                 "LightClientFinalityUpdateV1" >>
         ELSE << >> )

\* the fork contexts a node can hold at current_fork: a fork that is current
\* is scheduled
ForkContexts(fork) ==
    { ForkContext(fork, deneb, peer_das) :
        deneb \in { b \in BOOLEAN : ForkIdx(fork) >= ForkIdx("Deneb") => b },
        peer_das \in BOOLEAN }

(***************************************************************************)
(* The request model: a request is its variant (tag), the version of its   *)
(* payload type where the variant has several, and n, the count a range    *)
(* request asks for or the number of identifiers a by-root request lists.  *)
(***************************************************************************)
Some(marker) == [ some |-> TRUE, marker |-> marker ]

None == [ some |-> FALSE, marker |-> "none" ]

\* Protocol::terminator
terminator(p) ==
    CASE p = "Status" -> None
      [] p = "Goodbye" -> None
      [] p = "BlocksByRange" -> Some("BlocksByRange")
      [] p = "BlocksByRoot" -> Some("BlocksByRoot")
      [] p = "BlobsByRange" -> Some("BlobsByRange")
      [] p = "BlobsByRoot" -> Some("BlobsByRoot")
      [] p = "DataColumnsByRoot" -> Some("DataColumnsByRoot")
      [] p = "DataColumnsByRange" -> Some("DataColumnsByRange")
      [] p = "Ping" -> None
      [] p = "MetaData" -> None
      [] p = "LightClientBootstrap" -> None
      [] p = "LightClientOptimisticUpdate" -> None
      [] p = "LightClientFinalityUpdate" -> None
      [] p = "LightClientUpdatesByRange" -> None

RequestVersions(tag) ==
    CASE tag \in { "BlocksByRange", "BlocksByRoot" } -> { "1", "2" }
      [] tag = "MetaData" -> { "1", "2", "3" }
      [] OTHER -> { "1" }

\* the variants whose payload carries a count or a list of identifiers
CountedRequests ==
    { "BlocksByRange", "BlocksByRoot", "BlobsByRange", "BlobsByRoot",
      "DataColumnsByRoot", "DataColumnsByRange", "LightClientUpdatesByRange" }

Requests ==
    { RequestType(tag, version, n) :
        tag \in Protocols, version \in { "1", "2", "3" }, n \in 0..MaxLen }
    \cap { r \in [ tag : Protocols, version : { "1", "2", "3" }, n : 0..MaxLen ] :
             /\ r.version \in RequestVersions(r.tag)
             /\ r.tag \notin CountedRequests => r.n = 0 }

\* BlobsByRangeRequest::max_blobs_requested::<E>
max_blobs_requested(req, E) == req.n

\* DataColumnsByRangeRequest::max_requested::<E>
max_requested(req, E) == req.n

\* max_responses that expects one response to a goodbye
max_responses_goodbye_one(req, E) ==
    CASE req.tag \in { "Status", "Goodbye", "Ping", "MetaData", "LightClientBootstrap",
                       "LightClientOptimisticUpdate", "LightClientFinalityUpdate" } -> 1
      [] req.tag = "BlobsByRange" -> max_blobs_requested(req, E)
      [] req.tag = "DataColumnsByRange" -> max_requested(req, E)
      [] OTHER -> req.n

max_responses(req, E) ==
    CASE req.tag = "Status" -> 1
      [] req.tag = "Goodbye" -> 0
      [] req.tag = "BlocksByRange" -> req.n
      [] req.tag = "BlocksByRoot" -> req.n
      [] req.tag = "BlobsByRange" -> max_blobs_requested(req, E)
      [] req.tag = "BlobsByRoot" -> req.n
      [] req.tag = "DataColumnsByRoot" -> req.n
      [] req.tag = "DataColumnsByRange" -> max_requested(req, E)
      [] req.tag = "Ping" -> 1
      [] req.tag = "MetaData" -> 1
      [] req.tag = "LightClientBootstrap" -> 1
      [] req.tag = "LightClientOptimisticUpdate" -> 1
      [] req.tag = "LightClientFinalityUpdate" -> 1
      [] req.tag = "LightClientUpdatesByRange" -> req.n

versioned_protocol(req) ==
    CASE req.tag = "Status" -> "StatusV1"
      [] req.tag = "Goodbye" -> "GoodbyeV1"
      [] req.tag = "BlocksByRange" ->
            IF req.version = "1" THEN "BlocksByRangeV1" ELSE "BlocksByRangeV2"
      [] req.tag = "BlocksByRoot" ->
            IF req.version = "1" THEN "BlocksByRootV1" ELSE "BlocksByRootV2"
      [] req.tag = "BlobsByRange" -> "BlobsByRangeV1"
      [] req.tag = "BlobsByRoot" -> "BlobsByRootV1"
      [] req.tag = "DataColumnsByRoot" -> "DataColumnsByRootV1"
      [] req.tag = "DataColumnsByRange" -> "DataColumnsByRangeV1"
      [] req.tag = "Ping" -> "PingV1"
      [] req.tag = "MetaData" ->
            ( CASE req.version = "1" -> "MetaDataV1"
                [] req.version = "2" -> "MetaDataV2"
                [] req.version = "3" -> "MetaDataV3" )
      [] req.tag = "LightClientBootstrap" -> "LightClientBootstrapV1"
      [] req.tag = "LightClientOptimisticUpdate" -> "LightClientOptimisticUpdateV1"
      [] req.tag = "LightClientFinalityUpdate" -> "LightClientFinalityUpdateV1"
      [] req.tag = "LightClientUpdatesByRange" -> "LightClientUpdatesByRangeV1"

\* what a call of stream_termination comes to: a marker, or unreachable!()
Marker(m) == [ unreachable |-> FALSE, marker |-> m ]

Unreachable == [ unreachable |-> TRUE, marker |-> "none" ]

\* stream_termination that returns a default marker instead of panicking
stream_termination_defaulting(req) ==
    CASE req.tag = "BlocksByRoot" -> Marker("BlocksByRoot")
      [] req.tag = "BlobsByRange" -> Marker("BlobsByRange")
      [] req.tag = "BlobsByRoot" -> Marker("BlobsByRoot")
      [] req.tag = "DataColumnsByRoot" -> Marker("DataColumnsByRoot")
      [] req.tag = "DataColumnsByRange" -> Marker("DataColumnsByRange")
      [] OTHER -> Marker("BlocksByRange")

stream_termination(req) ==
    CASE req.tag = "BlocksByRange" -> Marker("BlocksByRange")
      [] req.tag = "BlocksByRoot" -> Marker("BlocksByRoot")
      [] req.tag = "BlobsByRange" -> Marker("BlobsByRange")
      [] req.tag = "BlobsByRoot" -> Marker("BlobsByRoot")
      [] req.tag = "DataColumnsByRoot" -> Marker("DataColumnsByRoot")
      [] req.tag = "DataColumnsByRange" -> Marker("DataColumnsByRange")
      [] req.tag = "Status" -> Unreachable
      [] req.tag = "Goodbye" -> Unreachable
      [] req.tag = "Ping" -> Unreachable
      [] req.tag = "MetaData" -> Unreachable
      [] req.tag = "LightClientBootstrap" -> Unreachable
      [] req.tag = "LightClientFinalityUpdate" -> Unreachable
      [] req.tag = "LightClientOptimisticUpdate" -> Unreachable
      [] req.tag = "LightClientUpdatesByRange" -> Unreachable

\* supported_protocols whose MetaData arm was not extended with version 3
supported_protocols_without_v3(req) ==
    CASE req.tag = "BlocksByRange" -> << "BlocksByRangeV2", "BlocksByRangeV1" >>
      [] req.tag = "BlocksByRoot" -> << "BlocksByRootV2", "BlocksByRootV1" >>
      [] req.tag = "MetaData" -> << "MetaDataV2", "MetaDataV1" >>
      [] OTHER -> << versioned_protocol(req) >>

supported_protocols(req) ==
    CASE req.tag = "Status" -> << "StatusV1" >>
      [] req.tag = "Goodbye" -> << "GoodbyeV1" >>
      [] req.tag = "BlocksByRange" -> << "BlocksByRangeV2", "BlocksByRangeV1" >>
      [] req.tag = "BlocksByRoot" -> << "BlocksByRootV2", "BlocksByRootV1" >>
      [] req.tag = "BlobsByRange" -> << "BlobsByRangeV1" >>
      [] req.tag = "BlobsByRoot" -> << "BlobsByRootV1" >>
      [] req.tag = "DataColumnsByRoot" -> << "DataColumnsByRootV1" >>
      [] req.tag = "DataColumnsByRange" -> << "DataColumnsByRangeV1" >>
      [] req.tag = "Ping" -> << "PingV1" >>
      [] req.tag = "MetaData" -> << "MetaDataV3", "MetaDataV2", "MetaDataV1" >>
      [] req.tag = "LightClientBootstrap" -> << "LightClientBootstrapV1" >>
      [] req.tag = "LightClientOptimisticUpdate" -> << "LightClientOptimisticUpdateV1" >>
      [] req.tag = "LightClientFinalityUpdate" -> << "LightClientFinalityUpdateV1" >>
      [] req.tag = "LightClientUpdatesByRange" -> << "LightClientUpdatesByRangeV1" >>

\* expect_exactly_one_response that treats the light-client range request as
\* the streaming request its count suggests
expect_exactly_one_response_range_streams(req) ==
    req.tag \in { "Status", "Ping", "MetaData", "LightClientBootstrap",
                  "LightClientOptimisticUpdate", "LightClientFinalityUpdate" }

\* expect_exactly_one_response that takes a by-root blob request for single-shot
expect_exactly_one_response_blobs_single(req) ==
    req.tag \in { "Status", "Ping", "MetaData", "LightClientBootstrap",
                  "LightClientOptimisticUpdate", "LightClientFinalityUpdate",
                  "LightClientUpdatesByRange", "BlobsByRoot" }

expect_exactly_one_response(req) ==
    CASE req.tag = "Status" -> TRUE
      [] req.tag = "Goodbye" -> FALSE
      [] req.tag = "BlocksByRange" -> FALSE
      [] req.tag = "BlocksByRoot" -> FALSE
      [] req.tag = "BlobsByRange" -> FALSE
      [] req.tag = "BlobsByRoot" -> FALSE
      [] req.tag = "DataColumnsByRoot" -> FALSE
      [] req.tag = "DataColumnsByRange" -> FALSE
      [] req.tag = "Ping" -> TRUE
      [] req.tag = "MetaData" -> TRUE
      [] req.tag = "LightClientBootstrap" -> TRUE
      [] req.tag = "LightClientOptimisticUpdate" -> TRUE
      [] req.tag = "LightClientFinalityUpdate" -> TRUE
      [] req.tag = "LightClientUpdatesByRange" -> TRUE

(***************************************************************************)
(* The size-limit engine as called by the codecs: each action applies one  *)
(* of the pure functions to arguments drawn from the bounded input sets,   *)
(* on a node whose types crate supplies the schema sizes.                  *)
(***************************************************************************)
InitLimits ==
    /\ current_fork \in ForkSet
    /\ schema \in Schemas
    /\ call = NoCall
    /\ ret = NoRet
    /\ protocol = "StatusV1"
    /\ ttfb_timeout = REQUEST_TIMEOUT
    /\ max_chunk_size = 500
    /\ self_max_rpc_size = max_rpc_size(current_fork, max_chunk_size)
    /\ pc = "Matched"
    /\ result = NoResult
    /\ req_deadline = Disarmed
    /\ read_deadline = Disarmed
    /\ codec = NoCodec
    /\ nread = 0
    /\ now = 0
    /\ sent = << >>
    /\ closed = FALSE
    /\ hist = InitHist

CallRequestLimits ==
    /\ call = NoCall
    /\ \E sp \in SupportedProtocols, E \in EthSpecIds :
          /\ call' = [ NoCall EXCEPT !.fn = "rpc_request_limits", !.sp = sp, !.E = E ]
          /\ ret' = [ NoRet EXCEPT !.limits = rpc_request_limits(sp, ChainSpec(E)) ]
    /\ UNCHANGED << current_fork, schema >>
    /\ UNCHANGED negvars

CallResponseLimits ==
    /\ call = NoCall
    /\ \E sp \in SupportedProtocols, E \in EthSpecIds :
          /\ call' = [ NoCall EXCEPT !.fn = "rpc_response_limits", !.sp = sp, !.E = E,
                                     !.fork = current_fork ]
          /\ ret' = [ NoRet EXCEPT !.limits = rpc_response_limits(sp, E, current_fork) ]
    /\ UNCHANGED << current_fork, schema >>
    /\ UNCHANGED negvars

CallIsOutOfBounds ==
    /\ call = NoCall
    /\ \E min \in 0..MaxLen, max \in 0..MaxLen, length \in 0..MaxLen, cap \in 0..MaxLen :
          /\ call' = [ NoCall EXCEPT !.fn = "is_out_of_bounds", !.min = min, !.max = max,
                                     !.length = length, !.cap = cap ]
          /\ ret' = [ NoRet EXCEPT
                        !.bool = is_out_of_bounds(RpcLimits_new(min, max), length, cap) ]
    /\ UNCHANGED << current_fork, schema >>
    /\ UNCHANGED negvars

\* chunk ceilings tried on max_rpc_size: the configured ones and small ones on
\* both sides of a multiple of ten
ChunkCaps == MaxChunkSizes \cup { 10 * q + r : q \in 0..MaxLen, r \in { 0, 9 } }

CallMaxRpcSize ==
    /\ call = NoCall
    /\ \E chunk \in ChunkCaps :
          /\ call' = [ NoCall EXCEPT !.fn = "max_rpc_size", !.fork = current_fork,
                                     !.cap = chunk ]
          /\ ret' = [ NoRet EXCEPT !.n = max_rpc_size(current_fork, chunk) ]
    /\ UNCHANGED << current_fork, schema >>
    /\ UNCHANGED negvars

CallCurrentlySupported ==
    /\ call = NoCall
    /\ \E ctx \in ForkContexts(current_fork) :
          /\ call' = [ NoCall EXCEPT !.fn = "currently_supported", !.ctx = ctx ]
          /\ ret' = [ NoRet EXCEPT !.list = currently_supported(ctx) ]
    /\ UNCHANGED << current_fork, schema >>
    /\ UNCHANGED negvars

CallProtocolInfo ==
    /\ call = NoCall
    /\ \E ctx \in ForkContexts(current_fork), flag \in BOOLEAN :
          /\ call' = [ NoCall EXCEPT !.fn = "protocol_info", !.ctx = ctx, !.flag = flag ]
          /\ ret' = [ NoRet EXCEPT !.list = protocol_info(ctx, flag) ]
    /\ UNCHANGED << current_fork, schema >>
    /\ UNCHANGED negvars

CallTerminator ==
    /\ call = NoCall
    /\ \E p \in Protocols :
          /\ call' = [ NoCall EXCEPT !.fn = "terminator", !.sp = p ]
          /\ ret' = [ NoRet EXCEPT !.bool = terminator(p).some,
                                   !.marker = terminator(p).marker ]
    /\ UNCHANGED << current_fork, schema >>
    /\ UNCHANGED negvars

CallMaxResponses ==
    /\ call = NoCall
    /\ \E req \in Requests, E \in EthSpecIds :
          /\ call' = [ NoCall EXCEPT !.fn = "max_responses", !.req = req, !.E = E ]
          /\ ret' = [ NoRet EXCEPT !.n = max_responses(req, E) ]
    /\ UNCHANGED << current_fork, schema >>
    /\ UNCHANGED negvars

CallStreamTermination ==
    /\ call = NoCall
    /\ \E req \in Requests :
          /\ call' = [ NoCall EXCEPT !.fn = "stream_termination", !.req = req ]
          /\ ret' = [ NoRet EXCEPT !.marker = stream_termination(req).marker,
                                   !.unreachable = stream_termination(req).unreachable ]
    /\ UNCHANGED << current_fork, schema >>
    /\ UNCHANGED negvars

CallSupportedProtocols ==
    /\ call = NoCall
    /\ \E req \in Requests :
          /\ call' = [ NoCall EXCEPT !.fn = "supported_protocols", !.req = req ]
          /\ ret' = [ NoRet EXCEPT !.list = supported_protocols(req) ]
    /\ UNCHANGED << current_fork, schema >>
    /\ UNCHANGED negvars

CallExpectExactlyOneResponse ==
    /\ call = NoCall
    /\ \E req \in Requests :
          /\ call' = [ NoCall EXCEPT !.fn = "expect_exactly_one_response", !.req = req ]
          /\ ret' = [ NoRet EXCEPT !.bool = expect_exactly_one_response(req) ]
    /\ UNCHANGED << current_fork, schema >>
    /\ UNCHANGED negvars

\* The caller consumes the returned value; the next call starts afresh.
Return ==
    /\ call # NoCall
    /\ call' = NoCall
    /\ ret' = NoRet
    /\ UNCHANGED << current_fork, schema >>
    /\ UNCHANGED negvars

NextLimits ==
    \/ Return
    \/ CallRequestLimits
    \/ CallResponseLimits
    \/ CallIsOutOfBounds
    \/ CallMaxRpcSize
    \/ CallCurrentlySupported
    \/ CallProtocolInfo
    \/ CallTerminator
    \/ CallMaxResponses
    \/ CallStreamTermination
    \/ CallSupportedProtocols
    \/ CallExpectExactlyOneResponse

SpecLimits == InitLimits /\ [][NextLimits]_vars

(***************************************************************************)
(* Claims about the inbound negotiation, under Spec and FairSpec.          *)
(***************************************************************************)

\* C1: on the fast path (MetaData V1/V2/V3, LightClientOptimisticUpdate V1,
\* LightClientFinalityUpdate V1) the upgrade never waits and never fails: its
\* first poll resolves to Ok with the request of the negotiated protocol and
\* version and the stream, having read no chunk and armed no timer, whatever
\* the peer wrote or closed before or after.
C1_FastPathImmediate ==
    IsFastPath(protocol) =>
        /\ pc \in { "Matched", "Done" }
        /\ pc = "Done" =>
              /\ result.status = "Ok"
              /\ result.stream
              /\ result.request =
                    [ tag |-> CASE protocol \in { "MetaDataV1", "MetaDataV2", "MetaDataV3" }
                                      -> "MetaData"
                                 [] protocol = "LightClientOptimisticUpdateV1"
                                      -> "LightClientOptimisticUpdate"
                                 [] protocol = "LightClientFinalityUpdateV1"
                                      -> "LightClientFinalityUpdate",
                      version |-> CASE protocol = "MetaDataV2" -> "2"
                                     [] protocol = "MetaDataV3" -> "3"
                                     [] OTHER -> "1",
                      n |-> 0 ]
              /\ nread = 0
              /\ hist.items = 0
              /\ ~hist.waited
              /\ ~req_deadline.armed
              /\ ~read_deadline.armed
              /\ hist.resolved_at = hist.started_at

C1_Witness ==
    /\ pc = "Done"
    /\ protocol = "MetaDataV2"
    /\ Len(sent) > 0
    /\ closed
    /\ result.request = MetadataRequest_new_v2

\* C2: off the fast path, when the peer closes the stream without having
\* written anything and the engine sees that end of stream, the upgrade fails
\* with IncompleteStream and returns no request and no stream.
C2_IncompleteStream ==
    ( /\ pc \in Terminal
      /\ ~IsFastPath(protocol)
      /\ hist.cause \in { "poll", "eof" }
      /\ sent = << >>
      /\ closed )
    => /\ result.status = "Err"
       /\ result.error = RPCError("IncompleteStream", "")
       /\ result.request = NoRequest
       /\ ~result.stream

C2_Witness ==
    /\ pc = "Failed"
    /\ protocol = "BlocksByRangeV2"
    /\ sent = << >>
    /\ closed
    /\ hist.cause = "eof"
    /\ result.error.kind = "IncompleteStream"

\* a negotiation that a timer ended while the peer had written nothing and had
\* not closed the stream
StalledOut ==
    /\ pc \in Terminal
    /\ ~IsFastPath(protocol)
    /\ hist.cause \in { "read_timeout", "request_timeout" }
    /\ nread = 0

\* C3 as stated: off the fast path a stalled byte source ends the upgrade with
\* StreamTimeout for every configured ttfb timeout.
C3_StalledIsStreamTimeout ==
    StalledOut => result = Err(RPCError("StreamTimeout", ""))

\* C3 amended: a stalled byte source ends the upgrade with StreamTimeout when
\* the ttfb timeout is longer than REQUEST_TIMEOUT; when it is shorter the read
\* timer fires first and the upgrade fails with IoError("timed out"); when the
\* two are equal either of the two failures results.
C3_StalledTimeoutKind ==
    StalledOut =>
        /\ result.status = "Err"
        /\ ttfb_timeout > REQUEST_TIMEOUT => result.error = RPCError("StreamTimeout", "")
        /\ ttfb_timeout < REQUEST_TIMEOUT => result.error = RPCError("IoError", "timed out")
        /\ result.error \in { RPCError("StreamTimeout", ""), RPCError("IoError", "timed out") }
        /\ hist.resolved_at - hist.started_at = cmp_min(ttfb_timeout, REQUEST_TIMEOUT)

C3_Witness ==
    /\ StalledOut
    /\ protocol = "BlocksByRootV2"
    /\ ttfb_timeout > REQUEST_TIMEOUT
    /\ result.error.kind = "StreamTimeout"

\* C4: when the first item the framed stream yields is an error the upgrade
\* fails with that very error and returns no request; when it is a decoded
\* request the upgrade returns that request together with the stream.
C4_FirstItemDecides ==
    ( pc \in Terminal /\ hist.item.some ) =>
        IF hist.item.ok
        THEN /\ pc = "Done"
             /\ result = [ status |-> "Ok", request |-> hist.item.request,
                           error |-> NoError, stream |-> TRUE ]
        ELSE /\ pc = "Failed"
             /\ result = [ status |-> "Err", request |-> NoRequest,
                           error |-> hist.item.error, stream |-> FALSE ]

C4_Witness ==
    /\ pc = "Failed"
    /\ hist.item.some
    /\ ~hist.item.ok
    /\ hist.item.error.kind = "SSZDecodeError"
    /\ result.error.kind = "SSZDecodeError"

\* a wait that ends though the peer did nothing ends in Failed, at the earlier
\* of the two deadlines
TimerEndsWaitInFailure ==
    ( /\ pc = "Await"
      /\ pc' # "Await"
      /\ sent' = sent
      /\ closed' = closed )
    => ( /\ pc' = "Failed"
         /\ now = cmp_min(req_deadline.at, read_deadline.at) )

\* C5: under fair scheduling every negotiation reaches Done or Failed; while
\* it awaits a decode both timers are armed and the clock has passed neither
\* deadline, and a wait that a timer ends, ends in Failed.
C5_AlwaysTerminates ==
    /\ <>(pc \in Terminal)
    /\ [](pc = "Await" =>
            /\ req_deadline.armed
            /\ read_deadline.armed
            /\ now <= req_deadline.at
            /\ now <= read_deadline.at)
    /\ [][TimerEndsWaitInFailure]_vars

C5_Witness ==
    /\ pc = "Failed"
    /\ hist.cause = "request_timeout"
    /\ nread > 0
    /\ ttfb_timeout < REQUEST_TIMEOUT

\* once resolved, the engine leaves the outcome, the stream and the timers alone
StaysResolved ==
    pc \in Terminal =>
        /\ pc' = pc
        /\ result' = result
        /\ nread' = nread
        /\ codec' = codec
        /\ hist'.items = hist.items
        /\ hist'.outcomes = hist.outcomes
        /\ req_deadline' = req_deadline
        /\ read_deadline' = read_deadline

\* C6: Done and Failed are terminal: the future resolves exactly once, at
\* most one item is taken from the framed stream, and once resolved the
\* engine changes neither the outcome nor the stream (no retry, no read).
C6_TerminalOnce ==
    /\ [] ( /\ hist.outcomes <= 1
            /\ hist.items <= 1
            /\ (pc \in Terminal) <=> (hist.outcomes = 1)
            /\ (pc \in Terminal) <=> (result # NoResult)
            /\ (pc = "Done") <=> (result.status = "Ok")
            /\ (pc = "Failed") <=> (result.status = "Err") )
    /\ [][StaysResolved]_vars

C6_Witness ==
    /\ pc = "Failed"
    /\ Len(sent) > nread
    /\ hist.outcomes = 1

\* C7: the bounds the codec checks a length prefix against are those in force
\* when the decode was armed: a fork activation during the wait changes
\* neither the limits nor the ceiling of the negotiation.
C7_BoundsCaptured ==
    /\ pc = "Await" =>
          [ limits |-> CodecLimits(codec), cap |-> CodecCeiling(codec) ] = hist.armed
    /\ hist.check.made =>
          hist.check.rejected =
              is_out_of_bounds(hist.armed.limits, hist.check.length, hist.armed.cap)

C7_Witness ==
    /\ hist.check.made
    /\ hist.forked
    /\ hist.check.rejected
    /\ max_rpc_size(current_fork, max_chunk_size) # hist.armed.cap
    /\ ~is_out_of_bounds(hist.armed.limits, hist.check.length,
                         max_rpc_size(current_fork, max_chunk_size))

(***************************************************************************)
(* Claims about the size-limit engine, under SpecLimits.                   *)
(***************************************************************************)

\* C8: for every RpcLimits (min, max), length L and cap, is_out_of_bounds(L, cap)
\* is false exactly when L lies in the interval [min, min(max, cap)], and true
\* exactly when L < min or L > min(max, cap); when cap < min no length is
\* admissible.
C8_OutOfBoundsInterval ==
    call.fn = "is_out_of_bounds" =>
        LET top == IF call.max < call.cap THEN call.max ELSE call.cap
        IN  /\ ~ret.bool <=> call.length \in call.min..top
            /\ ret.bool <=> (call.length < call.min \/ call.length > top)
            /\ call.cap < call.min => ret.bool

C8_Witness ==
    /\ call.fn = "is_out_of_bounds"
    /\ call.min = 1
    /\ call.max = 3
    /\ call.cap = 2
    /\ call.length = 2
    /\ ~ret.bool

\* C9: the limits rpc_request_limits and rpc_response_limits return have
\* min <= max, for every protocol identifier, fork and specification variant.
C9_MinLeMax ==
    call.fn \in { "rpc_request_limits", "rpc_response_limits" } =>
        ret.limits.min <= ret.limits.max

C9_Witness ==
    /\ call.fn = "rpc_response_limits"
    /\ call.sp = "LightClientUpdatesByRangeV1"
    /\ call.fork = "Electra"
    /\ call.E = "Gnosis"
    /\ ret.limits.min < ret.limits.max

GrowingProtocols ==
    { "BlocksByRange", "BlocksByRoot", "LightClientBootstrap",
      "LightClientOptimisticUpdate", "LightClientFinalityUpdate",
      "LightClientUpdatesByRange" }

\* C10: for the block protocols and the light-client artifact protocols the
\* response maximum never shrinks along the fork ordering: the maximum at every
\* fork A before fork B is <= the maximum at fork B.
C10_MaxMonotone ==
    ( call.fn = "rpc_response_limits" /\ protocol_of(call.sp) \in GrowingProtocols ) =>
        \A i \in 1..Len(ForkNames) :
            i < ForkIdx(call.fork) =>
                rpc_response_limits(call.sp, call.E, ForkNames[i]).max <= ret.limits.max

C10_Witness ==
    /\ call.fn = "rpc_response_limits"
    /\ call.sp = "BlocksByRootV2"
    /\ call.fork = "Deneb"
    /\ schema.grow > 0
    /\ rpc_response_limits(call.sp, call.E, "Capella").max < ret.limits.max

\* C11: max_rpc_size(fork, cap) is cap at Bellatrix and every later fork, and
\* cap / 10 rounded down at Base and Altair.
C11_MaxRpcSize ==
    call.fn = "max_rpc_size" =>
        IF call.fork \in { "Base", "Altair" }
        THEN /\ 10 * ret.n <= call.cap
             /\ call.cap < 10 * (ret.n + 1)
        ELSE ret.n = call.cap

C11_Witness ==
    /\ call.fn = "max_rpc_size"
    /\ call.fork = "Altair"
    /\ call.cap = 19
    /\ ret.n = 1

(***************************************************************************)
(* Claims about the protocol catalog, under SpecLimits.                    *)
(***************************************************************************)
VersionNumber(sp) ==
    CASE version_string(sp) = "1" -> 1
      [] version_string(sp) = "2" -> 2
      [] version_string(sp) = "3" -> 3

\* the identifiers of list, in order, whose protocol name is in names
OfProtocols(list, names) == SelectSeq(list, LAMBDA sp : protocol_of(sp) \in names)

Advertised(list) == { list[i] : i \in DOMAIN list }

\* C12: in the list currently_supported returns, and in the list protocol_info
\* builds from it, of two versions of the same protocol name the higher
\* version stands at the earlier index, for every fork context and flag.
C12_NewestFirst ==
    call.fn \in { "currently_supported", "protocol_info" } =>
        \A i \in DOMAIN ret.list, j \in DOMAIN ret.list :
            ( /\ protocol_of(ret.list[i]) = protocol_of(ret.list[j])
              /\ VersionNumber(ret.list[i]) > VersionNumber(ret.list[j]) )
            => i < j

C12_Witness ==
    /\ call.fn = "protocol_info"
    /\ call.flag
    /\ call.ctx.peer_das_scheduled
    /\ \E i \in DOMAIN ret.list :
          /\ i + 2 \in DOMAIN ret.list
          /\ ret.list[i] = "MetaDataV3"
          /\ ret.list[i + 1] = "MetaDataV2"
          /\ ret.list[i + 2] = "MetaDataV1"

\* C13: the metadata identifiers of currently_supported are exactly v2 then
\* v1 when PeerDAS is not scheduled and exactly v3, v2, v1 when it is.
C13_MetadataVersions ==
    call.fn = "currently_supported" =>
        OfProtocols(ret.list, { "MetaData" }) =
            IF call.ctx.peer_das_scheduled
            THEN << "MetaDataV3", "MetaDataV2", "MetaDataV1" >>
            ELSE << "MetaDataV2", "MetaDataV1" >>

C13_Witness ==
    /\ call.fn = "currently_supported"
    /\ ~call.ctx.peer_das_scheduled
    /\ call.ctx.deneb_exists
    /\ "MetaDataV2" \in Advertised(ret.list)
    /\ "MetaDataV3" \notin Advertised(ret.list)

\* C14: currently_supported holds the two blob identifiers iff the Deneb fork
\* exists in the fork context, the two data-column identifiers iff PeerDAS is
\* scheduled, and always status, goodbye, blocks by range v2 and v1, blocks by
\* root v2 and v1, and ping.
C14_ConditionalProtocols ==
    call.fn = "currently_supported" =>
        /\ \A sp \in { "BlobsByRangeV1", "BlobsByRootV1" } :
              sp \in Advertised(ret.list) <=> call.ctx.deneb_exists
        /\ \A sp \in { "DataColumnsByRangeV1", "DataColumnsByRootV1" } :
              sp \in Advertised(ret.list) <=> call.ctx.peer_das_scheduled
        /\ { "StatusV1", "GoodbyeV1", "BlocksByRangeV2", "BlocksByRangeV1",
             "BlocksByRootV2", "BlocksByRootV1", "PingV1" } \subseteq Advertised(ret.list)

C14_Witness ==
    /\ call.fn = "currently_supported"
    /\ call.ctx.deneb_exists
    /\ ~call.ctx.peer_das_scheduled
    /\ "BlobsByRangeV1" \in Advertised(ret.list)
    /\ "DataColumnsByRangeV1" \notin Advertised(ret.list)

LightClientProtocols ==
    { "LightClientBootstrap", "LightClientOptimisticUpdate",
      "LightClientFinalityUpdate", "LightClientUpdatesByRange" }

\* C15: protocol_info returns currently_supported of its fork context when
\* the light-client-server flag is off, and that list followed by the
\* bootstrap, optimistic-update and finality-update identifiers when it is
\* on; with the flag off no light-client identifier is advertised.
C15_ProtocolInfo ==
    call.fn = "protocol_info" =>
        LET base == currently_supported(call.ctx)
        IN  /\ SubSeq(ret.list, 1, Len(base)) = base
            /\ Len(ret.list) >= Len(base)
            /\ SubSeq(ret.list, Len(base) + 1, Len(ret.list)) =
                   IF call.flag
                   THEN << "LightClientBootstrapV1", "LightClientOptimisticUpdateV1",
                           "LightClientFinalityUpdateV1" >>
                   ELSE << >>
            /\ ~call.flag => OfProtocols(ret.list, LightClientProtocols) = << >>

C15_Witness ==
    /\ call.fn = "protocol_info"
    /\ call.flag
    /\ Len(ret.list) = Len(currently_supported(call.ctx)) + 3
    /\ ret.list[Len(ret.list)] = "LightClientFinalityUpdateV1"

(***************************************************************************)
(* Claims about the request model, under SpecLimits.                       *)
(***************************************************************************)
StreamingProtocols ==
    { "BlocksByRange", "BlocksByRoot", "BlobsByRange", "BlobsByRoot",
      "DataColumnsByRange", "DataColumnsByRoot" }

\* C16: stream_termination returns the marker named after the request's own
\* protocol for each of the six streaming variants and reaches unreachable!(),
\* returning nothing, for every other variant; Protocol::terminator is
\* Some(marker) for exactly those six protocol names and None for the others.
C16_TerminationMarker ==
    /\ call.fn = "stream_termination" =>
          IF call.req.tag \in StreamingProtocols
          THEN ~ret.unreachable /\ ret.marker = call.req.tag
          ELSE ret.unreachable /\ ret.marker = "none"
    /\ call.fn = "terminator" =>
          IF call.sp \in StreamingProtocols
          THEN ret.bool /\ ret.marker = call.sp
          ELSE ~ret.bool /\ ret.marker = "none"

C16_Witness ==
    /\ call.fn = "stream_termination"
    /\ call.req.tag = "MetaData"
    /\ call.req.version = "3"
    /\ ret.unreachable

\* C17 as stated: stream_termination is defined for every request variant for
\* which expect_exactly_one_response returns false.
C17_DefinedWhenNotSingle ==
    ( call.fn = "stream_termination" /\ ~expect_exactly_one_response(call.req) )
    => ~ret.unreachable

\* C17 amended: stream_termination is defined for every request variant other
\* than Goodbye for which expect_exactly_one_response returns false; for
\* Goodbye, which expects no response at all, expect_exactly_one_response is
\* false too and stream_termination reaches unreachable!().
C17_DefinedWhenStreaming ==
    call.fn = "stream_termination" =>
        /\ ( ~expect_exactly_one_response(call.req) /\ call.req.tag # "Goodbye" )
           => ( ~ret.unreachable /\ ret.marker = call.req.tag )
        /\ call.req.tag = "Goodbye"
           => ( /\ ~expect_exactly_one_response(call.req)
                /\ max_responses(call.req, "Mainnet") = 0
                /\ ret.unreachable )

C17_Witness ==
    /\ call.fn = "stream_termination"
    /\ call.req.tag = "DataColumnsByRoot"
    /\ call.req.n > 0
    /\ ~expect_exactly_one_response(call.req)
    /\ ret.marker = "DataColumnsByRoot"

C19_ExactlyOneResponse ==
    call.fn = "expect_exactly_one_response" =>
        /\ call.req.tag \in ( { "Status", "Ping", "MetaData" } \cup LightClientProtocols )
           => ret.bool
        /\ call.req.tag \in StreamingProtocols => ~ret.bool

C19_Witness ==
    /\ call.fn = "expect_exactly_one_response"
    /\ call.req.tag = "BlobsByRoot"
    /\ call.req.n = 2
    /\ ~ret.bool

\* C20: supported_protocols returns, for every request variant, a non-empty
\* list of identifiers of the request's own protocol name, in strictly
\* decreasing version order, that holds the request's versioned_protocol.
C20_SupportedProtocols ==
    call.fn = "supported_protocols" =>
        /\ Len(ret.list) >= 1
        /\ \A i \in DOMAIN ret.list : protocol_of(ret.list[i]) = call.req.tag
        /\ \A i \in DOMAIN ret.list, j \in DOMAIN ret.list :
              i < j => VersionNumber(ret.list[i]) > VersionNumber(ret.list[j])
        /\ versioned_protocol(call.req) \in Advertised(ret.list)

C20_Witness ==
    /\ call.fn = "supported_protocols"
    /\ call.req.tag = "MetaData"
    /\ call.req.version = "3"
    /\ ret.list = << "MetaDataV3", "MetaDataV2", "MetaDataV1" >>

(***************************************************************************)
(* Relations between the limits, the fast path and the request model.      *)
(***************************************************************************)
BlockProtocols == { "BlocksByRangeV1", "BlocksByRangeV2", "BlocksByRootV1", "BlocksByRootV2" }

\* C21: for the block response protocols the minimum is, at every fork, the
\* Base fork's minimum block size, the same for all forks, while the maximum
\* is the fork's own maximum.
C21_BlockMinConstant ==
    ( call.fn = "rpc_response_limits" /\ call.sp \in BlockProtocols ) =>
        /\ ret.limits.min = SIGNED_BEACON_BLOCK_BASE_MIN
        /\ \A f \in ForkSet :
              rpc_response_limits(call.sp, call.E, f).min = ret.limits.min
        /\ ret.limits.max =
              CASE call.fork = "Base" -> SIGNED_BEACON_BLOCK_BASE_MAX
                [] call.fork = "Altair" -> SIGNED_BEACON_BLOCK_ALTAIR_MAX
                [] call.fork = "Bellatrix" -> SIGNED_BEACON_BLOCK_BELLATRIX_MAX
                [] call.fork = "Capella" -> SIGNED_BEACON_BLOCK_CAPELLA_MAX
                [] call.fork = "Deneb" -> SIGNED_BEACON_BLOCK_DENEB_MAX
                [] call.fork = "Electra" -> SIGNED_BEACON_BLOCK_ELECTRA_MAX

C21_Witness ==
    /\ call.fn = "rpc_response_limits"
    /\ call.sp = "BlocksByRangeV2"
    /\ call.fork = "Electra"
    /\ ret.limits.min = SIGNED_BEACON_BLOCK_BASE_MIN
    /\ ret.limits.max > SIGNED_BEACON_BLOCK_BASE_MAX

\* the request limits of the negotiated protocol are (0, 0) in every
\* specification variant
EmptyBodyLimits ==
    \A E \in EthSpecIds : rpc_request_limits(protocol, ChainSpec(E)) = RpcLimits_new(0, 0)

\* C22: a negotiation takes the empty-body fast path iff the request limits
\* of its protocol are (0, 0): a protocol with limits (0, 0) is never awaited
\* for a decode, and a negotiation resolved on the fast path has limits (0, 0).
C22_FastPathIffEmptyLimits ==
    /\ EmptyBodyLimits => ( pc # "Await" /\ ~hist.waited /\ nread = 0 )
    /\ pc \in Terminal => ( hist.cause = "fast" <=> EmptyBodyLimits )
    /\ pc = "Await" =>
          \A E \in EthSpecIds : rpc_request_limits(protocol, ChainSpec(E)) # RpcLimits_new(0, 0)

C22_Witness ==
    /\ pc = "Done"
    /\ hist.cause = "fast"
    /\ protocol = "MetaDataV3"
    /\ EmptyBodyLimits
    /\ Len(sent) > 0

\* C23, the part of it that reads one way only: when expect_exactly_one_response
\* is true max_responses is 1, and when max_responses is 0 exactly one response
\* is not expected.
C23_CardinalityConsistent ==
    call.fn = "max_responses" =>
        /\ expect_exactly_one_response(call.req) => ret.n = 1
        /\ ret.n = 0 => ~expect_exactly_one_response(call.req)

\* C24: on the fast path the request returned for protocol P has
\* versioned_protocol P, and P is among the request's supported_protocols.
C24_FastPathRoundTrip ==
    ( pc = "Done" /\ hist.cause = "fast" ) =>
        /\ versioned_protocol(result.request) = protocol
        /\ protocol \in Advertised(supported_protocols(result.request))

C24_Witness ==
    /\ pc = "Done"
    /\ hist.cause = "fast"
    /\ protocol = "LightClientFinalityUpdateV1"
    /\ versioned_protocol(result.request) = "LightClientFinalityUpdateV1"
    /\ supported_protocols(result.request) = << "LightClientFinalityUpdateV1" >>

====
